---- MODULE Spec2Model ----
(***************************************************************************)
(* A model of postcactus/timeseries.py: the TimeSeries constructor and the *)
(* functions and methods that build time series from arrays.               *)
(*                                                                         *)
(* The functions are pure, so every specification below draws the          *)
(* arguments of one call in its initial states (pc = "call") and has one   *)
(* action, which applies the function and stores what the call returns or  *)
(* raises (pc = "done").                                                   *)
(*                                                                         *)
(* Times are integers (multiples of one time quantum).  A series is a      *)
(* record [ok |-> TRUE, t |-> <<...>>, y |-> <<...>>]; a raised exception  *)
(* is a record [ok |-> FALSE, err |-> <class>, msg |-> <message>].         *)
(***************************************************************************)
EXTENDS Integers, Sequences, FiniteSets, TLC

VARIABLES pc, fn, args, ret

vars == <<pc, fn, args, ret>>

(***************************************************************************)
(* Bounds of the model.                                                    *)
(***************************************************************************)
\* The times of every input array and series are drawn from 1..MaxTime.
MaxTime == 4
\* Longest array given to the constructor.
MaxLen == 4
\* Longest array given to remove_duplicate_iters.
MaxIters == 6
\* Longest list of series given to combine_ts.
MaxSeries == 2
\* Phases are integer multiples of 2*pi / TwoPi: TwoPi phase quanta make one
\* turn.
TwoPi == 6
\* Longest array given to unfold_phase.
MaxPhases == 4
\* A sampling frequency, or a timestep, is a fraction num / den with num and
\* den in 1..MaxRate.
MaxRate == 4
\* zero_padded is asked for 0..MaxPad points.
MaxPad == 6

(***************************************************************************)
(* np.allclose(a, b): |a - b| <= atol + rtol * |b| with the defaults       *)
(* atol = 1e-8 and rtol = 1e-5, here multiplied by 10^8.                   *)
(***************************************************************************)
ToleranceScale == 100000000
AtolScaled == 1
RtolScaled == 1000

(***************************************************************************)
(* numpy and Python primitives, on sequences.                              *)
(***************************************************************************)
NoValue == [ok |-> FALSE, err |-> "none", msg |-> "not returned yet"]

Raise(err, msg) == [ok |-> FALSE, err |-> err, msg |-> msg]

\* a[::-1]
RECURSIVE Reverse(_)
Reverse(s) == IF s = <<>> THEN <<>> ELSE Append(Reverse(Tail(s)), Head(s))

\* a[::sign], sign in {1, -1}
Stride(s, sign) == IF sign = -1 THEN Reverse(s) ELSE s

Min2(a, b) == IF a <= b THEN a ELSE b

\* a.min() of a non-empty array
RECURSIVE ArrayMin(_)
ArrayMin(s) == IF Len(s) = 1 THEN s[1] ELSE Min2(s[1], ArrayMin(Tail(s)))

\* a[1:] - a[:-1]
Diff(s) == [i \in 1..(Len(s) - 1) |-> s[i + 1] - s[i]]

\* a[msk] for a boolean array msk of the length of a
RECURSIVE BoolIndex(_, _)
BoolIndex(s, msk) ==
    IF s = <<>> THEN <<>>
    ELSE (IF Head(msk) THEN <<Head(s)>> ELSE <<>>) \o BoolIndex(Tail(s), Tail(msk))

\* All sequences over S of a length in lo..hi.
SeqsOf(S, lo, hi) == UNION {[1..n -> S] : n \in lo..hi}

\* The values of an array whose samples are told apart by their position.
Labels(n) == [i \in 1..n |-> i]

\* np.zeros(n)
Zeros(n) == [i \in 1..n |-> 0]

\* np.minimum.accumulate(a): the running minimum
MinimumAccumulate(s) == [i \in 1..Len(s) |-> ArrayMin(SubSeq(s, 1, i))]

\* a[:-1] and a[1:]
AllButLast(s) == SubSeq(s, 1, Len(s) - 1)

AllButFirst(s) == SubSeq(s, 2, Len(s))

(***************************************************************************)
(* TimeSeries.__init__ (y is an array here, so hasattr(y, '__len__')).     *)
(* BaseSeries.__init__, which stores t and y, is not part of this file.    *)
(***************************************************************************)
\* A faulty variant: the check accepts a repeated time (dt.min() < 0).
TimeSeries_weak(t, y) ==
    IF Len(t) > 1 /\ ArrayMin(Diff(t)) < 0
    THEN Raise("ValueError", "Time not monotonically increasing")
    ELSE [ok |-> TRUE, t |-> t, y |-> y]

TimeSeries(t, y) ==
    IF Len(t) > 1 /\ ArrayMin(Diff(t)) <= 0
    THEN Raise("ValueError", "Time not monotonically increasing")
    ELSE [ok |-> TRUE, t |-> t, y |-> y]

tmin(s) == s.t[1]

tmax(s) == s.t[Len(s.t)]

time_length(s) == tmax(s) - tmin(s)

(***************************************************************************)
(* Specification SpecInit: one call TimeSeries(t, y).                      *)
(***************************************************************************)
InitInit ==
    /\ pc = "call"
    /\ fn = "TimeSeries"
    /\ \E t \in SeqsOf(1..MaxTime, 1, MaxLen) :
         \E y \in {Labels(Len(t)), Zeros(Len(t))} :
            args = [t |-> t, y |-> y]
    /\ ret = NoValue

Call_TimeSeries ==
    /\ pc = "call"
    /\ fn = "TimeSeries"
    /\ ret' = TimeSeries(args.t, args.y)
    /\ pc' = "done"
    /\ UNCHANGED <<fn, args>>

NextInit == Call_TimeSeries

SpecInit == InitInit /\ [][NextInit]_vars

\* t[i] < t[i+1] for every adjacent pair.
StrictlyIncreasing(t) == \A i \in 1..(Len(t) - 1) : t[i] < t[i + 1]

remove_duplicate_iters_leq(t, y) ==
    LET t2  == Reverse(MinimumAccumulate(Reverse(t)))
        msk == [i \in 1..(Len(t) - 1) |-> t[i] <= t2[i + 1]] \o <<TRUE>>
    IN  TimeSeries(BoolIndex(t, msk), BoolIndex(y, msk))

\* A faulty variant: the running minimum is taken from the front (t2 is not the
\* minimum over the later samples).
remove_duplicate_iters_forward(t, y) ==
    LET t2  == MinimumAccumulate(t)
        msk == [i \in 1..(Len(t) - 1) |-> t[i] < t2[i + 1]] \o <<TRUE>>
    IN  TimeSeries(BoolIndex(t, msk), BoolIndex(y, msk))

remove_duplicate_iters(t, y) ==
    LET t2  == Reverse(MinimumAccumulate(Reverse(t)))
        \* np.hstack((t[:-1] < t2[1:], [True]))
        msk == [i \in 1..(Len(t) - 1) |->
                   AllButLast(t)[i] < AllButFirst(t2)[i]] \o <<TRUE>>
    IN  TimeSeries(BoolIndex(t, msk), BoolIndex(y, msk))

(***************************************************************************)
(* Specification SpecIters: one call remove_duplicate_iters(t, y), on a    *)
(* non-empty t in any order.  The function only indexes y, so the samples  *)
(* of y are their own positions: a value of the result tells which input   *)
(* sample it is.                                                           *)
(***************************************************************************)
InitIters ==
    /\ pc = "call"
    /\ fn = "remove_duplicate_iters"
    /\ \E t \in SeqsOf(1..MaxTime, 1, MaxIters) :
         args = [t |-> t, y |-> Labels(Len(t))]
    /\ ret = NoValue

Call_remove_duplicate_iters ==
    /\ pc = "call"
    /\ fn = "remove_duplicate_iters"
    /\ ret' = remove_duplicate_iters(args.t, args.y)
    /\ pc' = "done"
    /\ UNCHANGED <<fn, args>>

NextIters == Call_remove_duplicate_iters

SpecIters == InitIters /\ [][NextIters]_vars

\* The indices that are to survive: the last one, and every index whose
\* time is strictly smaller than every later time.
Survivors(t) ==
    {i \in 1..Len(t) : i = Len(t) \/ \A j \in (i + 1)..Len(t) : t[i] < t[j]}

\* The k-th smallest element of a set of integers.
Nth(S, k) == CHOOSE i \in S : Cardinality({j \in S : j <= i}) = k

\* The last index at which time tau occurs in t.
LastIndexOf(t, tau) ==
    CHOOSE i \in 1..Len(t) : t[i] = tau /\ \A j \in (i + 1)..Len(t) : t[j] # tau

\* C2: remove_duplicate_iters returns exactly the samples (t[i], y[i]), in
\* array order, for which i is the last index or t[i] is strictly smaller than
\* every later time; so each surviving time carries the value of the last
\* index at which that time occurs in the input.
C2_KeepsSamplesBelowAllLaterTimes ==
    (pc = "done" /\ fn = "remove_duplicate_iters") =>
        LET K == Survivors(args.t)
            n == Cardinality(K)
        IN  /\ ret.ok
            /\ ret.t = [k \in 1..n |-> args.t[Nth(K, k)]]
            /\ ret.y = [k \in 1..n |-> args.y[Nth(K, k)]]
            /\ \A k \in 1..Len(ret.t) :
                  ret.y[k] = args.y[LastIndexOf(args.t, ret.t[k])]

\* The example of the docstring: t = [1, 2, 3, 4, 2, 3] gives times [1, 2, 3]
\* with the values y[0], y[4], y[5] (positions 1, 5, 6 counted from one).
C2_Witness_Docstring ==
    /\ pc = "done" /\ fn = "remove_duplicate_iters"
    /\ args.t = <<1, 2, 3, 4, 2, 3>>
    /\ ret.ok /\ ret.t = <<1, 2, 3>> /\ ret.y = <<1, 5, 6>>

\* C3: for every non-empty t, in any order and with any repetitions, the
\* times remove_duplicate_iters returns are strictly increasing, and the
\* construction of the result does not raise.
C3_ResultStrictlyMonotonic ==
    (pc = "done" /\ fn = "remove_duplicate_iters") =>
        (ret.ok /\ StrictlyIncreasing(ret.t))

\* A result of more than one sample from an input that repeats a time and
\* goes back in time.
C3_Witness_Unordered ==
    /\ pc = "done" /\ fn = "remove_duplicate_iters"
    /\ \E i \in 1..(Len(args.t) - 1) : args.t[i + 1] < args.t[i]
    /\ \E i, j \in 1..Len(args.t) : i # j /\ args.t[i] = args.t[j]
    /\ ret.ok /\ Len(ret.t) > 1

(***************************************************************************)
(* combine_ts(series, prefer_late)                                         *)
(***************************************************************************)
\* The sort key of a series, lambda x: (sign * x.tmin, sign * x.tmax).
SortKey(x, sign) == <<sign * tmin(x), sign * tmax(x)>>

\* Python's comparison of two tuples of two numbers: k1 < k2.
TupleLess(k1, k2) == k1[1] < k2[1] \/ (k1[1] = k2[1] /\ k1[2] < k2[2])

\* sorted(series, key = ...): ascending in the key and stable, so a series
\* goes after the series of an equal key that precede it in the list.
RECURSIVE Sorted(_, _)
Sorted(series, sign) ==
    IF series = <<>> THEN <<>>
    ELSE LET rest == Sorted(AllButLast(series), sign)
             x    == series[Len(series)]
             p    == Cardinality({i \in 1..Len(rest) :
                        ~TupleLess(SortKey(x, sign), SortKey(rest[i], sign))})
         IN  SubSeq(rest, 1, p) \o <<x>> \o SubSeq(rest, p + 1, Len(rest))

\* The loop over timeseries[1:], from the accumulated arrays acc.
RECURSIVE Accumulate(_, _, _, _)
Accumulate(acc, rest, prefer_late, sign) ==
    IF rest = <<>> THEN acc
    ELSE LET s    == Head(rest)
             s_t  == Stride(s.t, sign)
             s_y  == Stride(s.y, sign)
             last == acc.times[Len(acc.times)]
             msk  == [i \in 1..Len(s_t) |->
                        IF prefer_late THEN s_t[i] < last ELSE s_t[i] > last]
         IN  Accumulate([times  |-> acc.times \o BoolIndex(s_t, msk),
                         values |-> acc.values \o BoolIndex(s_y, msk)],
                        Tail(rest), prefer_late, sign)

\* A faulty variant: the mask keeps a time equal to the last accumulated one.
combine_ts_leq(series, prefer_late) ==
    LET sign       == IF prefer_late THEN -1 ELSE 1
        timeseries == Sorted(series, sign)
        RECURSIVE Acc(_, _)
        Acc(acc, rest) ==
            IF rest = <<>> THEN acc
            ELSE LET s_t  == Stride(Head(rest).t, sign)
                     s_y  == Stride(Head(rest).y, sign)
                     last == acc.times[Len(acc.times)]
                     msk  == [i \in 1..Len(s_t) |->
                               IF prefer_late THEN s_t[i] <= last ELSE s_t[i] >= last]
                 IN  Acc([times  |-> acc.times \o BoolIndex(s_t, msk),
                          values |-> acc.values \o BoolIndex(s_y, msk)], Tail(rest))
        out == Acc([times  |-> Stride(timeseries[1].t, sign),
                    values |-> Stride(timeseries[1].y, sign)], Tail(timeseries))
    IN  TimeSeries(Stride(out.times, sign), Stride(out.values, sign))

\* A faulty variant: the sort key is not inverted for prefer_late.
combine_ts_unsigned(series, prefer_late) ==
    LET sign       == IF prefer_late THEN -1 ELSE 1
        timeseries == Sorted(series, 1)
        out == Accumulate([times  |-> Stride(timeseries[1].t, sign),
                           values |-> Stride(timeseries[1].y, sign)],
                          Tail(timeseries), prefer_late, sign)
    IN  TimeSeries(Stride(out.times, sign), Stride(out.values, sign))

combine_ts(series, prefer_late) ==
    LET sign       == IF prefer_late THEN -1 ELSE 1
        timeseries == Sorted(series, sign)
        out == Accumulate([times  |-> Stride(timeseries[1].t, sign),
                           values |-> Stride(timeseries[1].y, sign)],
                          Tail(timeseries), prefer_late, sign)
    IN  TimeSeries(Stride(out.times, sign), Stride(out.values, sign))

(***************************************************************************)
(* Specification SpecCombine: one call combine_ts(series, prefer_late) on  *)
(* a non-empty list of series that the constructor accepts.  combine_ts    *)
(* only copies values, so the value of sample i of the k-th series of the  *)
(* list is the pair <<k, i>>: a value of the result tells which input      *)
(* sample it is.                                                           *)
(***************************************************************************)
\* The time arrays the constructor accepts.
ValidTimes == {t \in SeqsOf(1..MaxTime, 1, MaxTime) : TimeSeries(t, t).ok}

\* The list of series with the time arrays ts.
SeriesList(ts) ==
    [k \in 1..Len(ts) |-> TimeSeries(ts[k], [i \in 1..Len(ts[k]) |-> <<k, i>>])]

InitCombine ==
    /\ pc = "call"
    /\ fn = "combine_ts"
    /\ \E ts \in SeqsOf(ValidTimes, 1, MaxSeries) :
         \E prefer_late \in BOOLEAN :
            args = [series |-> SeriesList(ts), prefer_late |-> prefer_late]
    /\ ret = NoValue

Call_combine_ts ==
    /\ pc = "call"
    /\ fn = "combine_ts"
    /\ ret' = combine_ts(args.series, args.prefer_late)
    /\ pc' = "done"
    /\ UNCHANGED <<fn, args>>

NextCombine == Call_combine_ts

SpecCombine == InitCombine /\ [][NextCombine]_vars

CombineDone == pc = "done" /\ fn = "combine_ts"

\* Time tau lies in the time range [tmin, tmax] of series s.
Covers(s, tau) == tmin(s) <= tau /\ tau <= tmax(s)

\* (tau, v) is a sample of series s.
HasSample(s, tau, v) == \E i \in 1..Len(s.t) : s.t[i] = tau /\ s.y[i] = v

\* C4: for every non-empty list of valid series and both values of
\* prefer_late, combine_ts returns a series (its construction does not raise)
\* whose times are strictly increasing, and every (time, value) pair of it is
\* a sample of one of the input series.
C4_CombinedStrictlyIncreasing ==
    CombineDone =>
        /\ ret.ok
        /\ StrictlyIncreasing(ret.t)
        /\ Len(ret.y) = Len(ret.t)
        /\ \A k \in 1..Len(ret.t) :
              \E j \in 1..Len(args.series) :
                 HasSample(args.series[j], ret.t[k], ret.y[k])

\* Two series that share times, combined with either preference.
C4_Witness_SharedTimes ==
    /\ CombineDone
    /\ Len(args.series) = 2
    /\ args.series[1].t = <<1, 2, 4>> /\ args.series[2].t = <<2, 3, 4>>
    /\ ~args.prefer_late
    /\ ret.ok /\ ret.t = <<1, 2, 4>>

\* C5: with prefer_late = True, every sample of the result at a time that
\* lies in the time range of two or more inputs is a sample of an input whose
\* tmin is the greatest among the inputs whose range holds that time.
C5_OverlapFromLatestStart ==
    (CombineDone /\ args.prefer_late) =>
        /\ ret.ok
        /\ \A k \in 1..Len(ret.t) :
              LET tau      == ret.t[k]
                  covering == {j \in 1..Len(args.series) :
                                 Covers(args.series[j], tau)}
                  src      == ret.y[k][1]
              IN  Cardinality(covering) >= 2 =>
                    /\ src \in covering
                    /\ HasSample(args.series[src], tau, ret.y[k])
                    /\ \A j \in covering :
                          tmin(args.series[j]) <= tmin(args.series[src])

\* The example: t1 = [1, 2, 3] and t2 = [2, 3, 4] give the times
\* [1, 2, 3, 4], with the values at 2 and 3 those of the second series.
C5_Witness_Example ==
    /\ CombineDone /\ args.prefer_late
    /\ Len(args.series) = 2
    /\ args.series[1].t = <<1, 2, 3>> /\ args.series[2].t = <<2, 3, 4>>
    /\ ret.ok /\ ret.t = <<1, 2, 3, 4>>
    /\ ret.y = << <<1, 1>>, <<2, 1>>, <<2, 2>>, <<2, 3>> >>

\* C6: for every list of valid series and either value of prefer_late, each
\* input sample whose time lies outside the time range of every other input
\* is a sample of the result.
C6_NonOverlappingPreserved ==
    CombineDone =>
        /\ ret.ok
        /\ \A j \in 1..Len(args.series) :
              \A i \in 1..Len(args.series[j].t) :
                 LET tau == args.series[j].t[i]
                 IN  (\A o \in 1..Len(args.series) :
                         o # j => ~Covers(args.series[o], tau))
                     => HasSample(ret, tau, args.series[j].y[i])

\* C7: if two input series start at the same time, then in the interval both
\* cover no sample of the result is taken from the shorter one (the one of
\* the smaller tmax), for prefer_late = True and for prefer_late = False.
C7_SameStartLongerUsed ==
    CombineDone =>
        /\ ret.ok
        /\ \A a, b \in 1..Len(args.series) :
              (tmin(args.series[a]) = tmin(args.series[b])
                 /\ tmax(args.series[a]) < tmax(args.series[b]))
              => \A k \in 1..Len(ret.t) :
                    Covers(args.series[a], ret.t[k]) => ret.y[k][1] # a

(***************************************************************************)
(* unfold_phase(phase).  A phase is a whole number of quanta of            *)
(* 2*pi / TwoPi, so phase / (2 * np.pi) is the fraction phase / TwoPi.     *)
(***************************************************************************)
\* floor(num / den) for den > 0
FloorDiv(num, den) == num \div den

\* np.rint(num / den) for den > 0: the nearest integer, a tie going to the
\* even one.
Rint(num, den) ==
    LET q == FloorDiv(num, den)
        r == num - q * den
    IN  IF 2 * r < den THEN q
        ELSE IF 2 * r > den THEN q + 1
        ELSE IF q % 2 = 0 THEN q ELSE q + 1

\* np.cumsum(a)
RECURSIVE Cumsum(_)
Cumsum(a) ==
    IF a = <<>> THEN <<>>
    ELSE LET front == Cumsum(AllButLast(a))
         IN  Append(front, (IF front = <<>> THEN 0 ELSE front[Len(front)])
                           + a[Len(a)])

\* A faulty variant: the jump is taken as nph[1:] - nph[:-1].
unfold_phase_reversed(phase) ==
    LET wind0 == <<0>> \o [i \in 1..(Len(phase) - 1) |->
                             Rint(phase[i + 1] - phase[i], TwoPi)]
        wind  == Cumsum(wind0)
    IN  [ok |-> TRUE, array |-> [i \in 1..Len(phase) |-> phase[i] + TwoPi * wind[i]]]

unfold_phase(phase) ==
    LET \* nph = phase / (2 * np.pi): the fractions phase[i] / TwoPi
        nph   == [i \in 1..Len(phase) |-> [num |-> phase[i], den |-> TwoPi]]
        \* nph[:-1] - nph[1:], fractions of the same denominator
        jumps == [i \in 1..(Len(phase) - 1) |->
                    [num |-> AllButLast(nph)[i].num - AllButFirst(nph)[i].num,
                     den |-> TwoPi]]
        \* wind = np.zeros_like(phase); wind[1:] = np.rint(nph[:-1] - nph[1:])
        wind0 == <<0>> \o [i \in 1..Len(jumps) |-> Rint(jumps[i].num, jumps[i].den)]
        \* wind = np.cumsum(wind)
        wind  == Cumsum(wind0)
        \* phase + (2 * np.pi) * wind, in phase quanta
    IN  [ok |-> TRUE, array |-> [i \in 1..Len(phase) |-> phase[i] + TwoPi * wind[i]]]

(***************************************************************************)
(* Specification SpecUnfold: one call unfold_phase(phase).  The phases are *)
(* samples of a signal (args.signal, which the function does not see) that *)
(* starts in one turn and changes by at most half a turn from one sample   *)
(* to the next; they are given either wrapped into (-pi, pi] or as they    *)
(* are.  Every array of phases in (-pi, pi] is the wrapping of itself.     *)
(***************************************************************************)
\* The phase in (-pi, pi] that differs from r by a multiple of 2*pi.
Wrap(r) ==
    LET m == r % TwoPi
    IN  IF 2 * m > TwoPi THEN m - TwoPi ELSE m

\* The signal that starts at r0 and changes by steps[i] after sample i.
RECURSIVE Signal(_, _)
Signal(r0, steps) ==
    IF steps = <<>> THEN <<r0>>
    ELSE <<r0>> \o Signal(r0 + Head(steps), Tail(steps))

HalfTurn == TwoPi \div 2

InitUnfold ==
    /\ pc = "call"
    /\ fn = "unfold_phase"
    /\ \E r0 \in 0..(TwoPi - 1) :
         \E steps \in SeqsOf((-HalfTurn)..HalfTurn, 0, MaxPhases - 1) :
            \E wrapped \in BOOLEAN :
               LET signal == Signal(r0, steps)
               IN  args = [phase  |-> IF wrapped
                                      THEN [i \in 1..Len(signal) |-> Wrap(signal[i])]
                                      ELSE signal,
                           signal |-> signal]
    /\ ret = NoValue

Call_unfold_phase ==
    /\ pc = "call"
    /\ fn = "unfold_phase"
    /\ ret' = unfold_phase(args.phase)
    /\ pc' = "done"
    /\ UNCHANGED <<fn, args>>

NextUnfold == Call_unfold_phase

SpecUnfold == InitUnfold /\ [][NextUnfold]_vars

UnfoldDone == pc = "done" /\ fn = "unfold_phase"

Abs(x) == IF x < 0 THEN -x ELSE x

\* An integer nearest to num / den (den > 0), the even one of two.
NearestInteger(num, den) ==
    CHOOSE w \in (-Abs(num) - 1)..(Abs(num) + 1) :
        /\ 2 * Abs(num - w * den) <= den
        /\ (2 * Abs(num - w * den) = den) => w % 2 = 0

\* The sum of f[k] for k in lo..hi.
RECURSIVE SumOver(_, _, _)
SumOver(f, lo, hi) == IF lo > hi THEN 0 ELSE f[hi] + SumOver(f, lo, hi - 1)

\* Every step of the sampled signal is smaller than pi in magnitude.
StepsBelowPi(signal) ==
    \A i \in 1..(Len(signal) - 1) : 2 * Abs(signal[i + 1] - signal[i]) < TwoPi

\* The signal is a ramp: every step is the same.
IsRamp(signal) ==
    \A i \in 1..(Len(signal) - 1) : signal[i + 1] - signal[i] = signal[2] - signal[1]

\* C8: unfold_phase returns phase[i] + 2*pi*w[i], where w[0] = 0 and w[i] is
\* the sum over k = 1..i of (phase[k-1] - phase[k]) / (2*pi) rounded to the
\* nearest integer; for phases that are a signal wrapped into (-pi, pi] whose
\* steps are smaller than pi in magnitude (a ramp is one), the result is the
\* signal plus the same multiple of 2*pi at every index, and its first
\* element is phase[0].
C8_UnfoldRestoresRamp ==
    UnfoldDone =>
        LET phase == args.phase
            out   == ret.array
            jump  == [k \in 2..Len(phase) |->
                        NearestInteger(phase[k - 1] - phase[k], TwoPi)]
        IN  /\ ret.ok
            /\ Len(out) = Len(phase)
            /\ out[1] = phase[1]
            /\ \A i \in 1..Len(phase) :
                  out[i] = phase[i] + TwoPi * SumOver(jump, 2, i)
            /\ StepsBelowPi(args.signal) =>
                  /\ (out[1] - args.signal[1]) % TwoPi = 0
                  /\ \A i \in 1..Len(out) :
                        out[i] - args.signal[i] = out[1] - args.signal[1]

\* A ramp that leaves (-pi, pi] and is wrapped into it, so that the phases
\* jump back, and the result is the ramp shifted by a whole turn.
C8_Witness_WrappedRamp ==
    /\ UnfoldDone
    /\ Len(args.signal) = MaxPhases
    /\ IsRamp(args.signal) /\ StepsBelowPi(args.signal)
    /\ args.signal[2] - args.signal[1] = 2
    /\ \E i \in 1..(Len(args.phase) - 1) : args.phase[i + 1] < args.phase[i]
    /\ args.phase # args.signal
    /\ ret.array[1] # args.signal[1]
    /\ \A i \in 1..Len(ret.array) : ret.array[i] - args.signal[i] = -TwoPi

(***************************************************************************)
(* The resampling methods.  A frequency or a timestep is a fraction        *)
(* [num, den] of positive integers.  The times of a resampled series are   *)
(* fractions of one denominator: the series holds the numerators in t and  *)
(* the denominator in scale.                                               *)
(***************************************************************************)
\* 1.0 / float(q)
Reciprocal(q) == [num |-> q.den, den |-> q.num]

\* BaseSeries.resampled(new_times), which is not part of this file: a series
\* of the class of self at the given times, each value the interpolation of
\* the samples of self at that time.
resampled(self, new_times, scale) ==
    LET r == TimeSeries(new_times,
                        [i \in 1..Len(new_times) |->
                            [interpolated |-> [t |-> self.t, y |-> self.y],
                             at |-> <<new_times[i], scale>>]])
    IN  IF r.ok THEN [ok |-> TRUE, t |-> r.t, y |-> r.y, scale |-> scale] ELSE r

\* A faulty variant: n points instead of n + 1 (np.arange(0, n)).
fixed_frequency_resampled_short(self, frequency) ==
    LET dt == Reciprocal(frequency)
        n  == FloorDiv(time_length(self) * dt.den, dt.num)
    IN  IF dt.num > time_length(self) * dt.den
        THEN Raise("ValueError", "Frequency too short for resampling")
        ELSE resampled(self, [k \in 1..n |-> tmin(self) * dt.den + (k - 1) * dt.num],
                       dt.den)

fixed_frequency_resampled(self, frequency) ==
    LET dt == Reciprocal(frequency)
        \* int(np.floor(self.time_length / dt))
        n  == FloorDiv(time_length(self) * dt.den, dt.num)
        \* self.tmin + np.arange(0, n + 1) * dt, over the denominator dt.den
        new_times == [k \in 1..(n + 1) |-> tmin(self) * dt.den + (k - 1) * dt.num]
    IN  IF dt.num > time_length(self) * dt.den
        THEN Raise("ValueError", "Frequency too short for resampling")
        ELSE resampled(self, new_times, dt.den)

fixed_timestep_resampled(self, timestep) ==
    IF timestep.num > time_length(self) * timestep.den
    THEN Raise("ValueError", "Timestep larger then duration of the TimeSeries")
    ELSE fixed_frequency_resampled(self, Reciprocal(timestep))

(***************************************************************************)
(* Specification SpecResample: one call of fixed_frequency_resampled or of *)
(* fixed_timestep_resampled on a series the constructor accepts, with a    *)
(* positive frequency or timestep.                                         *)
(***************************************************************************)
Rates == [num : 1..MaxRate, den : 1..MaxRate]

InitResample ==
    /\ pc = "call"
    /\ fn \in {"fixed_frequency_resampled", "fixed_timestep_resampled"}
    /\ \E t \in ValidTimes : \E q \in Rates :
         args = [self |-> TimeSeries(t, Labels(Len(t))), rate |-> q]
    /\ ret = NoValue

Call_fixed_frequency_resampled ==
    /\ pc = "call"
    /\ fn = "fixed_frequency_resampled"
    /\ ret' = fixed_frequency_resampled(args.self, args.rate)
    /\ pc' = "done"
    /\ UNCHANGED <<fn, args>>

Call_fixed_timestep_resampled ==
    /\ pc = "call"
    /\ fn = "fixed_timestep_resampled"
    /\ ret' = fixed_timestep_resampled(args.self, args.rate)
    /\ pc' = "done"
    /\ UNCHANGED <<fn, args>>

NextResample == Call_fixed_frequency_resampled \/ Call_fixed_timestep_resampled

SpecResample == InitResample /\ [][NextResample]_vars

Allclose(a, b) ==
    \A i \in 1..Len(a) :
        ToleranceScale * Abs(a[i] - b) <= AtolScaled + RtolScaled * Abs(b)

\* The property dt: the step, or the exception it raises.
dt(self) ==
    LET d == Diff(self.t)
    IN  IF d = <<>>
        THEN Raise("IndexError", "index 0 is out of bounds")
        ELSE IF ~Allclose(d, d[1])
        THEN Raise("ValueError", "Timeseries is not regularly sampled")
        ELSE [ok |-> TRUE, value |-> d[1]]

\* np.linspace(start, stop, num), where num - 1 divides stop - start
linspace(start, stop, num) ==
    IF num = 1 THEN <<start>>
    ELSE [i \in 1..num |-> start + ((i - 1) * (stop - start)) \div (num - 1)]

\* A faulty variant: self.dt is read before N is checked.
zero_padded_dt_first(self, N) ==
    LET N_new_zeros == N - Len(self.t)
    IN  IF ~dt(self).ok THEN dt(self)
        ELSE IF N_new_zeros < 0
        THEN Raise("ValueError", "Zero-padding cannot decrease the number of points")
        ELSE TimeSeries(self.t \o linspace(tmax(self) + dt(self).value,
                                           tmax(self) + N_new_zeros * dt(self).value,
                                           N_new_zeros),
                        self.y \o Zeros(N_new_zeros))

zero_padded(self, N) ==
    LET N_new_zeros == N - Len(self.t)
    IN  IF N_new_zeros < 0
        THEN Raise("ValueError", "Zero-padding cannot decrease the number of points")
        \* the arguments of np.linspace read self.dt, which may raise
        ELSE IF ~dt(self).ok THEN dt(self)
        ELSE TimeSeries(self.t \o linspace(tmax(self) + dt(self).value,
                                           tmax(self) + N_new_zeros * dt(self).value,
                                           N_new_zeros),
                        self.y \o Zeros(N_new_zeros))

(***************************************************************************)
(* Specification SpecPad: one call zero_padded(N) on a series the          *)
(* constructor accepts.                                                    *)
(***************************************************************************)
InitPad ==
    /\ pc = "call"
    /\ fn = "zero_padded"
    /\ \E t \in ValidTimes : \E y \in {Labels(Len(t)), Zeros(Len(t))} :
         \E N \in 0..MaxPad :
            args = [self |-> TimeSeries(t, y), N |-> N]
    /\ ret = NoValue

Call_zero_padded ==
    /\ pc = "call"
    /\ fn = "zero_padded"
    /\ ret' = zero_padded(args.self, args.N)
    /\ pc' = "done"
    /\ UNCHANGED <<fn, args>>

NextPad == Call_zero_padded

SpecPad == InitPad /\ [][NextPad]_vars

\* Every step of t is the first one.
UniformlySpaced(t) == \A i \in 1..(Len(t) - 1) : t[i + 1] - t[i] = t[2] - t[1]

\* C10: zero_padded(N) on a series of length L >= 2.  If N < L it raises
\* ValueError('Zero-padding cannot decrease the number of points'), whether
\* the series is uniformly spaced or not.  If N >= L and the series is
\* uniformly spaced with step dt, the result has N points, its first L
\* samples are those of the series, and the other N - L have the value 0 at
\* the times tmax + k * dt, k = 1..N-L.  If N >= L (N = L too) and the series
\* is not uniformly spaced, it raises the 'not regularly sampled' error.
C10_ZeroPadded ==
    (pc = "done" /\ fn = "zero_padded" /\ Len(args.self.t) >= 2) =>
        LET self == args.self
            L    == Len(self.t)
            N    == args.N
            step == self.t[2] - self.t[1]
        IN  /\ N < L =>
                  ret = [ok |-> FALSE, err |-> "ValueError",
                         msg |-> "Zero-padding cannot decrease the number of points"]
            /\ (N >= L /\ UniformlySpaced(self.t)) =>
                  /\ ret.ok
                  /\ Len(ret.t) = N /\ Len(ret.y) = N
                  /\ \A i \in 1..L : ret.t[i] = self.t[i] /\ ret.y[i] = self.y[i]
                  /\ \A k \in 1..(N - L) :
                        ret.t[L + k] = tmax(self) + k * step /\ ret.y[L + k] = 0
            /\ (N >= L /\ ~UniformlySpaced(self.t)) =>
                  ret = [ok |-> FALSE, err |-> "ValueError",
                         msg |-> "Timeseries is not regularly sampled"]

\* A uniformly spaced series of two points, of step 2, padded to five.
C10_Witness_Padded ==
    /\ pc = "done" /\ fn = "zero_padded"
    /\ args.self.t = <<2, 4>> /\ args.self.y = <<1, 2>> /\ args.N = 5
    /\ ret.ok /\ ret.t = <<2, 4, 6, 8, 10>> /\ ret.y = <<1, 2, 0, 0, 0>>

(***************************************************************************)
(* sample_common(series).  The times of the common grid are fractions of   *)
(* one denominator: t holds the numerators and scale the denominator.      *)
(***************************************************************************)
\* max(series, key = ...) and min(series, key = ...): the first series of the
\* list with the greatest, or the smallest, key; keys[k] is the key of
\* series[k].
MaxBy(series, keys) ==
    series[CHOOSE k \in 1..Len(series) :
              /\ \A j \in 1..Len(series) : keys[j] <= keys[k]
              /\ \A j \in 1..(k - 1) : keys[j] < keys[k]]

MinBy(series, keys) ==
    series[CHOOSE k \in 1..Len(series) :
              /\ \A j \in 1..Len(series) : keys[j] >= keys[k]
              /\ \A j \in 1..(k - 1) : keys[j] > keys[k]]

\* len(s)
len(s) == Len(s.t)

\* np.linspace(start, stop, num) for num >= 1: start + i * (stop - start) /
\* (num - 1), as numerators over the denominator num - 1 (1 for one point).
linspace_over(start, stop, num) ==
    IF num = 1 THEN [t |-> <<start>>, scale |-> 1]
    ELSE [t |-> [i \in 1..num |-> start * (num - 1) + (i - 1) * (stop - start)],
          scale |-> num - 1]

\* [s.resampled(t) for s in series]: the list, or the first exception.
ResampleAll(series, grid) ==
    LET out    == [k \in 1..Len(series) |-> resampled(series[k], grid.t, grid.scale)]
        failed == {k \in 1..Len(series) : ~out[k].ok}
    IN  IF failed = {} THEN [ok |-> TRUE, list |-> out]
        ELSE out[CHOOSE k \in failed : \A j \in failed : k <= j]

\* A faulty variant: the grid starts at the smallest tmin.
sample_common_min_tmin(series) ==
    LET s_tmin == MinBy(series, [k \in 1..Len(series) |-> tmin(series[k])])
        s_tmax == MinBy(series, [k \in 1..Len(series) |-> tmax(series[k])])
        s_ns   == MinBy(series, [k \in 1..Len(series) |-> len(series[k])])
    IN  ResampleAll(series, linspace_over(tmin(s_tmin), tmax(s_tmax), len(s_ns)))

sample_common(series) ==
    LET s_tmin == MaxBy(series, [k \in 1..Len(series) |-> tmin(series[k])])
        s_tmax == MinBy(series, [k \in 1..Len(series) |-> tmax(series[k])])
        s_ns   == MinBy(series, [k \in 1..Len(series) |-> len(series[k])])
        t      == linspace_over(tmin(s_tmin), tmax(s_tmax), len(s_ns))
    IN  ResampleAll(series, t)

(***************************************************************************)
(* Specification SpecCommon: one call sample_common(series) on a non-empty *)
(* list of series the constructor accepts, overlapping or not.             *)
(***************************************************************************)
InitCommon ==
    /\ pc = "call"
    /\ fn = "sample_common"
    /\ \E ts \in SeqsOf(ValidTimes, 1, MaxSeries) :
         args = [series |-> SeriesList(ts)]
    /\ ret = NoValue

Call_sample_common ==
    /\ pc = "call"
    /\ fn = "sample_common"
    /\ ret' = sample_common(args.series)
    /\ pc' = "done"
    /\ UNCHANGED <<fn, args>>

NextCommon == Call_sample_common

SpecCommon == InitCommon /\ [][NextCommon]_vars

CommonDone == pc = "done" /\ fn = "sample_common"

\* The greatest tmin, the smallest tmax and the smallest length of a list.
MaxTmin(series) ==
    CHOOSE a \in {tmin(series[k]) : k \in 1..Len(series)} :
        \A k \in 1..Len(series) : tmin(series[k]) <= a

MinTmax(series) ==
    CHOOSE b \in {tmax(series[k]) : k \in 1..Len(series)} :
        \A k \in 1..Len(series) : tmax(series[k]) >= b

MinLength(series) ==
    CHOOSE n \in {Len(series[k].t) : k \in 1..Len(series)} :
        \A k \in 1..Len(series) : Len(series[k].t) >= n

\* What C11 says of the result: one series per input, the k-th resampled
\* from the k-th input, all on one grid, which is regular, goes from the
\* greatest tmin to the smallest tmax and has the smallest length of points.
OnCommonGrid(series, r) ==
    /\ r.ok
    /\ Len(r.list) = Len(series)
    /\ \A k \in 1..Len(series) :
          /\ r.list[k].ok
          /\ r.list[k].t = r.list[1].t /\ r.list[k].scale = r.list[1].scale
          /\ \A i \in 1..Len(r.list[k].y) :
                r.list[k].y[i].interpolated = [t |-> series[k].t, y |-> series[k].y]
    /\ LET g == r.list[1].t
            c == r.list[1].scale
       IN  /\ Len(g) = MinLength(series)
           /\ g[1] = MaxTmin(series) * c
           /\ g[Len(g)] = MinTmax(series) * c
           /\ \A i \in 1..(Len(g) - 2) : g[i + 2] - g[i + 1] = g[i + 1] - g[i]

\* C11 as stated: whenever the inputs have a common domain (the greatest
\* tmin is not greater than the smallest tmax), sample_common returns one
\* resampled series per input, in input order, all on the regular grid from
\* the greatest tmin to the smallest tmax with the smallest length of points.
C11_Original_CommonGridOnAnyCommonDomain ==
    (CommonDone /\ MaxTmin(args.series) <= MinTmax(args.series)) =>
        OnCommonGrid(args.series, ret)

\* C11, amended: the same, whenever the common domain has a positive length
\* (the greatest tmin is smaller than the smallest tmax) or the shortest
\* input has a single point.
C11_CommonGrid ==
    (CommonDone /\ (MaxTmin(args.series) < MinTmax(args.series)
                     \/ (MaxTmin(args.series) = MinTmax(args.series)
                         /\ MinLength(args.series) = 1))) =>
        OnCommonGrid(args.series, ret)

\* Two series of different tmin and tmax, resampled to the three points
\* 2, 5/2, 3.
C11_Witness_DifferentSeries ==
    /\ CommonDone
    /\ Len(args.series) = 2
    /\ args.series[1].t = <<1, 2, 3>> /\ args.series[2].t = <<2, 3, 4>>
    /\ ret.ok
    /\ ret.list[1].t = <<4, 5, 6>> /\ ret.list[1].scale = 2
    /\ ret.list[2].t = ret.list[1].t

\* C12: whenever the greatest tmin of the inputs is greater than the
\* smallest tmax (no overlapping domain), sample_common raises an error and
\* returns no series, whatever the lengths of the inputs, a shortest input
\* of a single point included.
C12_NoOverlapRejected ==
    (CommonDone /\ MaxTmin(args.series) > MinTmax(args.series)) => ~ret.ok

(***************************************************************************)
(* regular_resampled() and to_FrequencySeries().  The frequencies of the   *)
(* result are fractions of one positive denominator: f holds the           *)
(* numerators and scale the denominator.  The Fourier amplitudes are not   *)
(* computed: fft[k] names the transform of the values at bin k.            *)
(***************************************************************************)
regular_resampled(self) ==
    LET t == linspace_over(tmin(self), tmax(self), len(self))
    IN  resampled(self, t.t, t.scale)

\* np.fft.fftfreq(n, d): the bins 0, 1, ..., (n-1)//2, -(n//2), ..., -1, each
\* divided by n * d.
fftfreq_bins(n) ==
    [i \in 1..n |-> IF i - 1 <= (n - 1) \div 2 THEN i - 1 ELSE i - 1 - n]

\* np.fft.fftshift(x): x rolled by n // 2 places, so that bin 0 is in the
\* middle.
fftshift(x) ==
    LET n == Len(x)
    IN  [i \in 1..n |-> x[((i - 1 - n \div 2) % n) + 1]]

\* frequencyseries.FrequencySeries(f, fft), which is not part of this file.
FrequencySeries(f, fft, scale) == [ok |-> TRUE, f |-> f, fft |-> fft, scale |-> scale]

\* is_complex, the type of self.y, is not read.
to_FrequencySeries(self, is_complex) ==
    LET regular_ts == regular_resampled(self)
        \* regular_ts.dt, a fraction step.value / regular_ts.scale
        step       == dt(regular_ts)
        n          == len(regular_ts)
        \* np.fft.fftfreq(len(regular_ts), d = dt):
        \* bin / (n * dt) = bin * scale / (n * step.value)
        freqencies == [i \in 1..n |-> fftfreq_bins(n)[i] * regular_ts.scale]
        fft        == [i \in 1..n |-> [fft |-> regular_ts.y, bin |-> fftfreq_bins(n)[i]]]
    IN  IF ~step.ok THEN step
        ELSE FrequencySeries(fftshift(freqencies), fftshift(fft), n * step.value)

(***************************************************************************)
(* Specification SpecFourier: one call to_FrequencySeries() on a series    *)
(* the constructor accepts, with times in 0..MaxTime and values that are   *)
(* real (positions or zeros) or complex.                                   *)
(***************************************************************************)
\* Complex values, told apart by their position.
ComplexLabels(n) == [i \in 1..n |-> [re |-> i, im |-> 1]]

InitFourier ==
    /\ pc = "call"
    /\ fn = "to_FrequencySeries"
    /\ \E t \in {u \in SeqsOf(0..MaxTime, 1, MaxTime + 1) : TimeSeries(u, u).ok} :
         \/ \E y \in {Labels(Len(t)), Zeros(Len(t))} :
               args = [self |-> TimeSeries(t, y), is_complex |-> FALSE]
         \/ args = [self |-> TimeSeries(t, ComplexLabels(Len(t))), is_complex |-> TRUE]
    /\ ret = NoValue

Call_to_FrequencySeries ==
    /\ pc = "call"
    /\ fn = "to_FrequencySeries"
    /\ ret' = to_FrequencySeries(args.self, args.is_complex)
    /\ pc' = "done"
    /\ UNCHANGED <<fn, args>>

NextFourier == Call_to_FrequencySeries

SpecFourier == InitFourier /\ [][NextFourier]_vars

\* C13: to_FrequencySeries on a series whose values are not complex keeps
\* only the non-negative frequencies: the frequency array it returns holds no
\* negative frequency.
C13_RealSignalNoNegativeFrequency ==
    (pc = "done" /\ fn = "to_FrequencySeries" /\ ~args.is_complex /\ ret.ok) =>
        \A k \in 1..Len(ret.f) : ret.f[k] >= 0

(***************************************************************************)
(* Time reversal of combine_ts.                                            *)
(***************************************************************************)
\* The series s under t -> -t: the samples in reverse order, at the negated
\* times, so that the times increase again.
Mirror(s) ==
    IF s.ok
    THEN [ok |-> TRUE,
          t  |-> Reverse([i \in 1..Len(s.t) |-> 0 - s.t[i]]),
          y  |-> Reverse(s.y)]
    ELSE s

MirrorAll(series) == [k \in 1..Len(series) |-> Mirror(series[k])]

\* C14: the early and the late preference of combine_ts are mirror images
\* under time reversal: combine_ts(series, prefer_late=False) equals the
\* result of sending t -> -t in every input, calling combine_ts with
\* prefer_late=True, and sending t -> -t back.
C14_EarlyIsMirroredLate ==
    (CombineDone /\ ~args.prefer_late) =>
        ret = Mirror(combine_ts(MirrorAll(args.series), TRUE))

====
